---- MODULE Spec2Model ----
(***************************************************************************)
(* Session authentication with rotating token pairs of bugkhoji-backend:   *)
(* utils/token.ts, controllers/auth.controller(.fixed).ts, the two         *)
(* authorization middlewares and the auth routes.                          *)
(*                                                                         *)
(* Time is the wall clock in whole seconds (the granularity of the iat/exp *)
(* claims).  The persisted store (users, sessions) is the only shared      *)
(* state; every handler is one action in Spec and a sequence of steps, one *)
(* per store access, in SpecRace.                                          *)
(***************************************************************************)
EXTENDS Integers, Sequences, FiniteSets, TLC

\* ---------------------------------------------------------------- bounds
MaxTicks == 2
MaxSessions == 2
MaxIssued == 3

\* ------------------------------------------------------- program constants
AccessTTL == 3600
RefreshTTL == 604800
SessionTTL == 604800

\* clock advances the model offers: one second, one access-token lifetime,
\* one session / refresh-token lifetime
TickSteps == {1, AccessTTL, SessionTTL}

\* ------------------------------------------------------------ credential store
Users == {"res", "org", "off", "adm"}
Emails == Users \cup {"nobody"}
Passwords == {"good", "bad"}
UserTypes == {"RESEARCHER", "ORGANIZATION", "ADMIN"}

role(u) ==
    CASE u \in {"res", "off"} -> "RESEARCHER" [] u = "org" -> "ORGANIZATION" [] OTHER -> "ADMIN"

\* prisma.user.findUnique({where: {email}}): the row, or none
findUserByEmail(email) == IF email \in Users THEN email ELSE ""

\* passwordHash is nullable; "adm" has no local credential
passwordHash(u) == IF u = "adm" THEN "" ELSE "good"

\* bcrypt.compare(password, user.passwordHash)
passwordMatch(password, hash) == password = hash

NullDate == -1
NullHash == [set |-> FALSE, key |-> ""]

SessionIds == 1..MaxSessions
NoSession == 0
NoRow ==
    [exists |-> FALSE, userId |-> "", isActive |-> FALSE, expiresAt |-> 0, lastSeen |-> 0,
     createdAt |-> 0]

\* ------------------------------------------------------------------ tokens
\* A token string is modelled by the payload it was signed over; a validly
\* signed token is one the server issued (member of `issued`).
NoToken == [type |-> "none", id |-> "", role |-> "", sessionId |-> NoSession, iat |-> 0]
BadToken == [type |-> "garbage", id |-> "", role |-> "", sessionId |-> NoSession, iat |-> 0]

VARIABLES users, sessions, nextSid, now, ticks, issued, boundTo, rotated, loggedOut, logins, resp, pc

vars == <<users, sessions, nextSid, now, ticks, issued, boundTo, rotated, loggedOut, logins, resp, pc>>
store == <<users, sessions, nextSid>>

exp(t) == t.iat + (IF t.type = "access" THEN AccessTTL ELSE RefreshTTL)

\* jwt.verify(token, secret): returns the payload unless the token is
\* malformed or clockTimestamp >= exp
jwtVerify(t, clock) == t.type \in {"access", "refresh"} /\ clock < exp(t)

generateAccessToken(u, sid, clock) ==
    [type |-> "access", id |-> u, role |-> role(u), sessionId |-> sid, iat |-> clock]

\* the payload of generateRefreshToken: {id, type, iat}; the sessionId
\* argument of the callers is not a parameter of the function
refreshPayload(u, clock) ==
    [type |-> "refresh", id |-> u, role |-> "", sessionId |-> NoSession, iat |-> clock]

\* bcrypt reads at most the first 72 bytes of its input.  A token string is
\* base64url(header) "." base64url(payload) "." signature: the header takes
\* 37 bytes, the remaining 35 encode {"id":" and the first 19 characters of
\* the user id.  Everything after (type, iat, exp, signature) is cut off.
truncate72(t) == t.id

\* bcrypt.hash(token, 10) (the random salt does not change what compares equal)
bcryptHash(t) == [set |-> TRUE, key |-> truncate72(t)]

\* bcrypt.compare(token, hash)
bcryptCompare(t, h) == h.set /\ truncate72(t) = h.key

\* --------------------------------------------------------- session registry
\* prisma.session.findUnique({where: {id}}): the row, or null
sessionRow(ss, sid) == IF sid \in SessionIds THEN ss[sid] ELSE NoRow

isLive(s, clock) == s.exists /\ s.isActive /\ ~(s.expiresAt < clock)

\* session.create with an expiresAt that has already passed
newSessionExpired(u, clock) ==
    [exists |-> TRUE, userId |-> u, isActive |-> TRUE,
     expiresAt |-> clock - 1, lastSeen |-> clock, createdAt |-> clock]

newSession(u, clock) ==
    [exists |-> TRUE, userId |-> u, isActive |-> TRUE,
     expiresAt |-> clock + SessionTTL, lastSeen |-> clock, createdAt |-> clock]

\* ------------------------------------------------------------ token service
\* verifyRefreshToken without the check of refreshTokenExpiresAt
verifyRefreshTokenNoExpiry(t, userId, sessionId, us, clock) ==
    /\ t.type # "none"
    /\ userId # ""
    /\ jwtVerify(t, clock)
    /\ t.id = userId /\ t.type = "refresh"
    /\ userId \in Users
    /\ us[userId].refreshTokenHash.set
    /\ us[userId].isActive
    /\ bcryptCompare(t, us[userId].refreshTokenHash)

\* verifyRefreshToken(token, userId, sessionId) when every store read succeeds
verifyRefreshToken(t, userId, sessionId, us, clock) ==
    /\ t.type # "none"
    /\ userId # ""
    /\ jwtVerify(t, clock)
    /\ t.id = userId /\ t.type = "refresh"
    /\ userId \in Users
    /\ us[userId].refreshTokenHash.set
    /\ us[userId].isActive
    /\ ~(us[userId].refreshTokenExpiresAt # NullDate /\ us[userId].refreshTokenExpiresAt < clock)
    /\ bcryptCompare(t, us[userId].refreshTokenHash)

\* verifyRefreshToken without its catch: a failing store read escapes
verifyRefreshTokenRethrow(t, userId, sessionId, us, clock, dbOk) ==
    [threw |-> ~dbOk /\ t.type # "none" /\ userId # "" /\ jwtVerify(t, clock)
                  /\ t.id = userId /\ t.type = "refresh",
     value |-> dbOk /\ verifyRefreshToken(t, userId, sessionId, us, clock)]

\* the whole call, try and catch: what the caller gets when the store read
\* succeeds (dbOk) or throws.  Every exception inside the try (jwt.verify on
\* a malformed or expired token, a failing prisma read) ends in `return false`.
verifyRefreshTokenOutcome(t, userId, sessionId, us, clock, dbOk) ==
    [threw |-> FALSE,
     value |-> dbOk /\ verifyRefreshToken(t, userId, sessionId, us, clock)]

\* generateRefreshToken that only needs the user row to exist
refreshIssuableAny(us, u) == u \in Users

\* generateRefreshToken throws unless the user exists and is active
refreshIssuable(us, u) == u \in Users /\ us[u].isActive

\* the user.update of generateRefreshToken
storeRefreshHash(us, u, t, clock) ==
    [us EXCEPT ![u].refreshTokenHash = bcryptHash(t),
               ![u].refreshTokenExpiresAt = clock + RefreshTTL]

\* the user.update of invalidateRefreshToken
invalidateRefreshToken(us, u) ==
    [us EXCEPT ![u].refreshTokenHash = NullHash,
               ![u].refreshTokenExpiresAt = NullDate]

\* updateMany without the rule that a null column matches no comparison
expiredUsersNullAsPast(us, clock) ==
    {u \in Users : us[u].refreshTokenExpiresAt < clock}

\* where: {refreshTokenExpiresAt: {lt: new Date()}}: a null expiry matches no
\* comparison
expiredUsers(us, clock) ==
    {u \in Users : us[u].refreshTokenExpiresAt # NullDate /\ us[u].refreshTokenExpiresAt < clock}

\* the updateMany of cleanupExpiredTokens: the rows after it, and its count
cleanupExpiredTokens(us, clock) ==
    [rows |-> [u \in Users |->
                 IF u \in expiredUsers(us, clock)
                 THEN [us[u] EXCEPT !.refreshTokenHash = NullHash,
                                    !.refreshTokenExpiresAt = NullDate]
                 ELSE us[u]],
     count |-> Cardinality(expiredUsers(us, clock))]

\* ------------------------------------------------------------------ responses
MsgInvalidLogin == "Invalid email or password"
MsgPending == "Account pending activation. Please wait for admin approval."
MsgInactive == "Account is inactive"
MsgNoRefresh == "Refresh token not found"
MsgJwtFailed == "Invalid refresh token (JWT verification failed)"
MsgInvalidRefresh == "Invalid refresh token"
MsgSessionDead == "Session expired or invalid"
MsgUserGone == "User not found or inactive"
MsgNoCookieToken == "No authentication token found in cookies"
MsgBadToken == "Invalid or expired token"
MsgNoBearer == "No token provided"
MsgInvalidBearer == "Invalid token"
MsgServer == "Internal server error"
MsgLoginServer == "Server error during login"
MsgLoggedOut == "Logged out successfully"
MsgUnauthorized == "Unauthorized"
MsgSessionNotFound == "Session not found"
MsgTerminated == "Session terminated successfully"

NoResp ==
    [op |-> "none", status |-> 0, error |-> "", token |-> NoToken, setCookie |-> NoToken,
     sid |-> NoSession, email |-> "", password |-> "", userType |-> "",
     stage |-> "", credType |-> "none", liveAtCall |-> FALSE,
     cookieIn |-> NoToken, replay |-> FALSE, ctx |-> FALSE, again |-> FALSE,
     audit |-> <<>>, auditOk |-> TRUE, credExpired |-> FALSE, cookieOk |-> FALSE,
     userId |-> "", ok |-> FALSE, threw |-> FALSE, dbOk |-> TRUE, owned |-> FALSE,
     count |-> 0, clock |-> 0, raced |-> FALSE]

\* createAuditLog writing the record twice
createAuditLogTwice(action, auditOk) == IF auditOk THEN <<action, action>> ELSE <<>>

\* createAuditLog: one record when the write succeeds, nothing (and no
\* exception) when it fails
createAuditLog(action, auditOk) == IF auditOk THEN <<action>> ELSE <<>>

\* createAuditLog without its catch: the failure reaches the caller
auditEscapesOnFailure(auditOk) == ~auditOk

\* createAuditLog catches the failure of its write and logs it: nothing
\* reaches the caller
auditEscapes(auditOk) == FALSE

\* the response after `await createAuditLog(...)`: an exception from it would
\* end in the catch of the handler, which answers 500
afterAudit(r, auditOk, msg) ==
    IF auditEscapes(auditOk) THEN [r EXCEPT !.status = 500, !.error = msg, !.token = NoToken]
    ELSE r

\* the outcomes of the audit write a handler reaches: it succeeds or fails
AuditWrites(reached) == IF reached THEN BOOLEAN ELSE {TRUE}

\* a refresh request in flight: the handler's position and its locals
Idle == [at |-> "idle", cookie |-> NoToken, sid |-> NoSession, access |-> NoToken,
         newRefresh |-> NoToken, status |-> 0, error |-> "", raced |-> FALSE, user |-> ""]
Procs == {1, 2}

Init ==
    /\ users = [u \in Users |-> [isActive |-> u \in {"res", "adm"}, lastLogin |-> NullDate,
                                  refreshTokenHash |-> NullHash,
                                  refreshTokenExpiresAt |-> NullDate]]
    /\ sessions = [s \in SessionIds |-> NoRow]
    /\ nextSid = 1
    /\ now = 0
    /\ ticks = 0
    /\ issued = {}
    /\ boundTo = {}
    /\ rotated = {}
    /\ loggedOut = {}
    /\ logins = {}
    /\ resp = NoResp
    /\ pc = [p \in Procs |-> Idle]

\* the wall clock advances
Tick ==
    /\ ticks < MaxTicks
    /\ \E d \in TickSteps : now' = now + d
    /\ ticks' = ticks + 1
    /\ UNCHANGED <<users, sessions, nextSid, issued, boundTo, rotated, loggedOut, logins, resp, pc>>

\* ------------------------------------------------------ authorization middleware
Guard(ok, status, error, u, sid) ==
    [ok |-> ok, status |-> status, error |-> error, id |-> u, sessionId |-> sid]

\* authenticateToken: the access-token cookie first, then the Bearer header
credentialOf(accessCookie, bearer) ==
    IF accessCookie # NoToken THEN accessCookie ELSE bearer

authenticateToken(accessCookie, bearer, us, ss, clock) ==
    LET token == credentialOf(accessCookie, bearer) IN
    IF token = NoToken THEN Guard(FALSE, 401, MsgNoCookieToken, "", NoSession)
    ELSE IF ~jwtVerify(token, clock) THEN Guard(FALSE, 401, MsgBadToken, "", NoSession)
    ELSE IF token.sessionId # NoSession /\ ~isLive(sessionRow(ss, token.sessionId), clock)
         THEN Guard(FALSE, 401, MsgSessionDead, "", NoSession)
    ELSE IF ~us[token.id].isActive THEN Guard(FALSE, 401, MsgUserGone, "", NoSession)
    ELSE Guard(TRUE, 200, "", token.id, token.sessionId)

\* authenticate: Bearer header only; req.user is the decoded payload
authenticate(bearer, clock) ==
    IF bearer = NoToken THEN Guard(FALSE, 401, MsgNoBearer, "", NoSession)
    ELSE IF ~jwtVerify(bearer, clock) THEN Guard(FALSE, 401, MsgInvalidBearer, "", NoSession)
    ELSE Guard(TRUE, 200, "", bearer.id, bearer.sessionId)

\* what a client can put in a cookie or header: nothing, junk, or any token
\* the server ever signed
Presentable == issued \cup {NoToken, BadToken}

\* the session a credential references was live when the request arrived
refLive(t) == isLive(sessionRow(sessions, t.sessionId), now)

\* the credential is an access token the server signed, past its exp
expiredAccess(t) == t \in issued /\ t.type = "access" /\ ~jwtVerify(t, now)

\* the refresh cookie holds the token the store currently accepts for its
\* user, never presented before, and a session it was issued for is live
currentCookie(t) ==
    /\ t \in issued /\ t.type = "refresh" /\ t \notin rotated
    /\ verifyRefreshToken(t, t.id, NoSession, users, now)
    /\ \E s \in SessionIds : <<t, s>> \in boundTo /\ isLive(sessions[s], now)

\* ------------------------------------------------------------------------ login
\* login() without the comparison of the stored role with the route's role
loginOutcomeNoRoleCheck(email, password, userType, us) ==
    LET user == findUserByEmail(email) IN
    IF user = "" THEN "noUser"
    ELSE IF role(user) = "ORGANIZATION" /\ ~us[user].isActive THEN "pending"
    ELSE IF role(user) # "ORGANIZATION" /\ ~us[user].isActive THEN "inactive"
    ELSE IF passwordHash(user) = "" THEN "noHash"
    ELSE IF ~passwordMatch(password, passwordHash(user)) THEN "badPassword"
    ELSE "ok"

\* login() without the isActive checks
loginOutcomeNoActiveCheck(email, password, userType, us) ==
    LET user == findUserByEmail(email) IN
    IF user = "" THEN "noUser"
    ELSE IF role(user) # userType THEN "role"
    ELSE IF passwordHash(user) = "" THEN "noHash"
    ELSE IF ~passwordMatch(password, passwordHash(user)) THEN "badPassword"
    ELSE "ok"

\* the checks of login(), in the order of the code
loginOutcome(email, password, userType, us) ==
    LET user == findUserByEmail(email) IN
    IF user = "" THEN "noUser"
    ELSE IF role(user) # userType THEN "role"
    ELSE IF role(user) = "ORGANIZATION" /\ ~us[user].isActive THEN "pending"
    ELSE IF role(user) # "ORGANIZATION" /\ ~us[user].isActive THEN "inactive"
    ELSE IF passwordHash(user) = "" THEN "noHash"
    ELSE IF ~passwordMatch(password, passwordHash(user)) THEN "badPassword"
    ELSE "ok"

\* a message of its own when no user has the email
loginErrorRevealing(outcome) ==
    CASE outcome = "pending" -> MsgPending
      [] outcome = "inactive" -> MsgInactive
      [] outcome = "noUser" -> MsgUserGone
      [] OTHER -> MsgInvalidLogin

\* one message for every rejection
loginErrorGeneric(outcome) == MsgInvalidLogin

loginError(outcome) ==
    CASE outcome = "pending" -> MsgPending
      [] outcome = "inactive" -> MsgInactive
      [] OTHER -> MsgInvalidLogin

\* POST /login/{role}: login, then handleLoginSuccess
login(email, password, userType) ==
    LET outcome == loginOutcome(email, password, userType, users)
        user == findUserByEmail(email)
        base == [NoResp EXCEPT !.op = "login", !.stage = "handler", !.email = email, !.password = password,
                               !.userType = userType]
        at == generateAccessToken(user, nextSid, now)
        rt == refreshPayload(user, now)
    IN
    /\ pc = [p \in Procs |-> Idle]
    /\ IF outcome # "ok"
       THEN /\ \E auditOk \in AuditWrites(outcome = "badPassword") :
                 resp' = afterAudit([base EXCEPT !.status = 401, !.error = loginError(outcome),
                                       !.auditOk = auditOk,
                                       !.audit = IF outcome = "badPassword"
                                                 THEN createAuditLog("LOGIN_FAILED", auditOk)
                                                 ELSE <<>>],
                                    auditOk, MsgLoginServer)
            /\ UNCHANGED <<users, sessions, nextSid, issued, boundTo, logins>>
       ELSE /\ nextSid <= MaxSessions
            /\ Cardinality(issued) < MaxIssued
            /\ sessions' = [sessions EXCEPT ![nextSid] = newSession(user, now)]
            /\ nextSid' = nextSid + 1
            /\ IF ~refreshIssuable(users, user)
               THEN \* generateRefreshToken throws after the session was created
                    /\ users' = [users EXCEPT ![user].lastLogin = now]
                    /\ issued' = issued \cup {at}
                    /\ UNCHANGED <<boundTo, logins>>
                    /\ resp' = [base EXCEPT !.status = 500, !.error = MsgLoginServer]
               ELSE /\ users' = storeRefreshHash([users EXCEPT ![user].lastLogin = now],
                                                 user, rt, now)
                    /\ issued' = issued \cup {at, rt}
                    /\ boundTo' = boundTo \cup {<<rt, nextSid>>}
                    /\ logins' = logins \cup {<<at, rt>>}
                    /\ \E auditOk \in AuditWrites(TRUE) :
                         resp' = afterAudit([base EXCEPT !.status = 200, !.token = at,
                                               !.setCookie = rt,
                                               !.sid = nextSid, !.auditOk = auditOk,
                                               !.audit = createAuditLog("LOGIN_SUCCESS", auditOk)],
                                            auditOk, MsgLoginServer)
    /\ UNCHANGED <<now, ticks, rotated, loggedOut, pc>>

\* ---------------------------------------------------------------------- refresh
\* session.findFirst({where: {userId, isActive: true, expiresAt: {gt: now}},
\*                    orderBy: {lastSeen: 'desc'}}): the possible rows
findFirstSession(u, ss, clock) ==
    LET cand == {s \in SessionIds : ss[s].exists /\ ss[s].userId = u /\ ss[s].isActive
                                    /\ ss[s].expiresAt > clock}
    IN {s \in cand : \A r \in cand : ss[r].lastSeen <= ss[s].lastSeen}

\* POST /refresh: authenticateToken, then refreshToken
refreshToken(accessCookie, bearer, cookie) ==
    LET g == authenticateToken(accessCookie, bearer, users, sessions, now)
        base == [NoResp EXCEPT !.op = "refresh", !.stage = "handler",
                               !.credType = credentialOf(accessCookie, bearer).type,
                               !.liveAtCall = refLive(credentialOf(accessCookie, bearer)),
                               !.credExpired = expiredAccess(credentialOf(accessCookie, bearer)),
                               !.cookieOk = currentCookie(cookie),
                               !.cookieIn = cookie, !.replay = cookie \in rotated]
        reject(msg) ==
            /\ resp' = [base EXCEPT !.status = 401, !.error = msg]
            /\ UNCHANGED <<issued, boundTo, rotated>>
        found == findFirstSession(cookie.id, sessions, now)
    IN
    /\ pc = [p \in Procs |-> Idle]
    /\ UNCHANGED <<now, ticks, loggedOut, logins, pc>>
    /\ IF ~g.ok
       THEN /\ resp' = [base EXCEPT !.stage = "guard", !.status = g.status, !.error = g.error]
            /\ UNCHANGED <<issued, boundTo, rotated>>
            /\ UNCHANGED store
       ELSE IF cookie = NoToken THEN reject(MsgNoRefresh) /\ UNCHANGED store
       ELSE IF ~jwtVerify(cookie, now) THEN reject(MsgJwtFailed) /\ UNCHANGED store
       ELSE
         \* old tokens without sessionId: reuse the latest live session of the
         \* user, or create one
         \E sid \in SessionIds :
           /\ IF cookie.sessionId # NoSession THEN sid = cookie.sessionId
              ELSE IF found # {} THEN sid \in found
              ELSE sid = nextSid
           /\ LET created == cookie.sessionId = NoSession /\ found = {}
                  ss1 == IF created THEN [sessions EXCEPT ![sid] = newSession(cookie.id, now)]
                         ELSE sessions
                  nsid1 == IF created THEN nextSid + 1 ELSE nextSid
                  at == generateAccessToken(cookie.id, sid, now)
                  rt == refreshPayload(cookie.id, now)
              IN
              IF ~isLive(ss1[sid], now)
              THEN /\ reject(MsgSessionDead)
                   /\ sessions' = ss1 /\ nextSid' = nsid1 /\ UNCHANGED users
              ELSE IF cookie.sessionId # NoSession
                      /\ ~verifyRefreshToken(cookie, cookie.id, sid, users, now)
              THEN /\ reject(MsgInvalidRefresh)
                   /\ sessions' = ss1 /\ nextSid' = nsid1 /\ UNCHANGED users
              ELSE IF ~users[cookie.id].isActive
              THEN /\ reject(MsgUserGone)
                   /\ sessions' = ss1 /\ nextSid' = nsid1 /\ UNCHANGED users
              ELSE /\ Cardinality(issued) < MaxIssued
                   /\ sessions' = [ss1 EXCEPT ![sid].lastSeen = now]
                   /\ nextSid' = nsid1
                   /\ users' = storeRefreshHash(users, cookie.id, rt, now)
                   /\ issued' = issued \cup {at, rt}
                   /\ boundTo' = boundTo \cup {<<rt, sid>>}
                   /\ rotated' = rotated \cup {cookie}
                   /\ \E auditOk \in AuditWrites(TRUE) :
                        resp' = afterAudit([base EXCEPT !.status = 200, !.token = at,
                                              !.setCookie = rt,
                                              !.sid = sid, !.auditOk = auditOk,
                                              !.audit = createAuditLog("TOKEN_REFRESH", auditOk)],
                                           auditOk, MsgServer)

\* ----------------------------------------------------------------------- logout
\* if (userId)
hasUserContext(g) == g.id # ""

\* if (userId && sessionId)
hasSessionContext(g) == g.id # "" /\ g.sessionId # NoSession

\* a logout that leaves the session row as it is
deactivateSessionNoop(ss, sid, clock) == ss

\* session.update({data: {isActive: false, expiresAt: new Date()}}); lastSeen
\* is @updatedAt
deactivateSession(ss, sid, clock) ==
    [ss EXCEPT ![sid].isActive = FALSE, ![sid].expiresAt = clock, ![sid].lastSeen = clock]

\* authenticate, then logout: the handler, whatever else is in flight
logoutHandler(bearer) ==
    LET g == authenticate(bearer, now)
        base == [NoResp EXCEPT !.op = "logout", !.stage = "handler", !.credType = bearer.type,
                               !.liveAtCall = refLive(bearer),
                               !.ctx = g.ok /\ bearer.sessionId # NoSession,
                               !.again = resp.op = "logout" /\ resp.status = 200,
                               !.raced = \E p \in Procs : pc[p].at \notin {"idle", "done"}]
    IN
    /\ UNCHANGED <<now, ticks, nextSid, issued, boundTo, rotated, logins, pc>>
    /\ IF ~g.ok
       THEN /\ resp' = [base EXCEPT !.stage = "guard", !.status = g.status, !.error = g.error]
            /\ UNCHANGED <<users, sessions, loggedOut>>
       ELSE IF hasSessionContext(g)
       THEN IF ~sessionRow(sessions, g.sessionId).exists
            THEN \* session.update on a missing row throws: the catch answers 500
                 /\ resp' = [base EXCEPT !.status = 500, !.error = MsgServer]
                 /\ UNCHANGED <<users, sessions, loggedOut>>
            ELSE /\ sessions' = deactivateSession(sessions, g.sessionId, now)
                 /\ users' = invalidateRefreshToken(users, g.id)
                 /\ loggedOut' = loggedOut \cup {g.sessionId}
                 /\ \E auditOk \in AuditWrites(TRUE) :
                      resp' = afterAudit([base EXCEPT !.status = 200, !.error = MsgLoggedOut,
                                            !.sid = g.sessionId, !.auditOk = auditOk,
                                            !.audit = createAuditLog("LOGOUT", auditOk)],
                                         auditOk, MsgServer)
       ELSE /\ resp' = [base EXCEPT !.status = 200, !.error = MsgLoggedOut]
            /\ UNCHANGED <<users, sessions, loggedOut>>

\* POST /logout: authenticate, then logout
logout(bearer) ==
    /\ pc = [p \in Procs |-> Idle]
    /\ logoutHandler(bearer)

\* GET /sessions: authenticate, then getSessions
getSessions(bearer) ==
    LET g == authenticate(bearer, now) IN
    /\ pc = [p \in Procs |-> Idle]
    /\ resp' = [NoResp EXCEPT !.op = "sessions", !.credType = bearer.type,
                              !.liveAtCall = refLive(bearer),
                              !.stage = IF g.ok THEN "handler" ELSE "guard",
                              !.status = g.status, !.error = g.error]
    /\ UNCHANGED <<users, sessions, nextSid, now, ticks, issued, boundTo, rotated, loggedOut,
                   logins, pc>>

\* the access credential of a request: in the cookie, in the header, or in
\* both (the cookie then wins)
CredPairs ==
    {<<c, NoToken>> : c \in Presentable} \cup {<<NoToken, b>> : b \in Presentable}
        \cup {<<c, BadToken>> : c \in {t \in issued : t.type = "access" /\ t.iat = now}}

\* the logins of the token-lifecycle specification: the seeded researcher,
\* with the right and with a wrong password
LifecycleLogins == {<<"res", p, "RESEARCHER">> : p \in Passwords}

Next ==
    \/ Tick
    \/ \E l \in LifecycleLogins : login(l[1], l[2], l[3])
    \/ \E cb \in CredPairs, r \in Presentable : refreshToken(cb[1], cb[2], r)
    \/ \E b \in Presentable : logout(b)
    \/ \E b \in Presentable : getSessions(b)

Spec == Init /\ [][Next]_vars

\* the clock around the end of a session's lifetime: to its last second, and
\* two seconds on
LateSteps == {SessionTTL - 1, 2}

TickLate ==
    /\ ticks < MaxTicks
    /\ \E d \in LateSteps : now' = now + d
    /\ ticks' = ticks + 1
    /\ UNCHANGED <<users, sessions, nextSid, issued, boundTo, rotated, loggedOut, logins, resp, pc>>

NextLifetime ==
    \/ TickLate
    \/ login("res", "good", "RESEARCHER")
    \/ \E cb \in CredPairs, r \in Presentable : refreshToken(cb[1], cb[2], r)
    \/ \E b \in Presentable : logout(b)

SpecLifetime == Init /\ [][NextLifetime]_vars

\* every login route with every credential
NextLogin ==
    \/ Tick
    \/ \E e \in Emails, p \in Passwords, t \in UserTypes : login(e, p, t)

\* the organization account pending approval, or approved
InitLogin ==
    /\ users \in [Users -> {[isActive |-> a, lastLogin |-> NullDate,
                             refreshTokenHash |-> NullHash,
                             refreshTokenExpiresAt |-> NullDate] : a \in BOOLEAN}]
    /\ \A u \in Users \ {"org"} : users[u].isActive = (u \in {"res", "adm"})
    /\ sessions = [s \in SessionIds |-> NoRow]
    /\ nextSid = 1
    /\ now = 0
    /\ ticks = 0
    /\ issued = {}
    /\ boundTo = {}
    /\ rotated = {}
    /\ loggedOut = {}
    /\ logins = {}
    /\ resp = NoResp
    /\ pc = [p \in Procs |-> Idle]

SpecLogin == InitLogin /\ [][NextLogin]_vars

\* ----------------------------------------------- refreshToken, one store access per step
\* Two requests run the handler concurrently; each await on the store is a
\* step, and `new Date()` is read where the code reads it.
inFlight(p) == pc[p].at \notin {"idle", "done"}

done(p, status, error) ==
    pc' = [pc EXCEPT ![p].at = "done", ![p].status = status, ![p].error = error]

goto(p, at) == pc' = [pc EXCEPT ![p].at = at]

raceFrame == UNCHANGED <<now, ticks, loggedOut, logins, resp>>

\* authenticateToken, then the cookie check and jwt.verify of the handler
rBegin(p, accessCookie, bearer, cookie) ==
    LET g == authenticateToken(accessCookie, bearer, users, sessions, now)
        q == CHOOSE r \in Procs : r # p
        start == [pc[p] EXCEPT !.cookie = cookie, !.raced = inFlight(q)]
    IN
    /\ pc[p].at = "idle"
    /\ pc' = [pc EXCEPT
                ![q].raced = pc[q].raced \/ inFlight(q),
                ![p] = IF ~g.ok THEN [start EXCEPT !.at = "done", !.status = g.status,
                                                    !.error = g.error]
                       ELSE IF cookie = NoToken
                       THEN [start EXCEPT !.at = "done", !.status = 401, !.error = MsgNoRefresh]
                       ELSE IF ~jwtVerify(cookie, now)
                       THEN [start EXCEPT !.at = "done", !.status = 401, !.error = MsgJwtFailed]
                       ELSE IF cookie.sessionId = NoSession
                       THEN [start EXCEPT !.at = "findFirst"]
                       ELSE [start EXCEPT !.at = "findUnique", !.sid = cookie.sessionId]]
    /\ UNCHANGED <<users, sessions, nextSid, issued, boundTo, rotated>>
    /\ raceFrame

\* session.findFirst for a token without sessionId
rFindFirst(p) ==
    LET found == findFirstSession(pc[p].cookie.id, sessions, now) IN
    /\ pc[p].at = "findFirst"
    /\ IF found = {} THEN goto(p, "create")
       ELSE \E sid \in found : pc' = [pc EXCEPT ![p].at = "findUnique", ![p].sid = sid]
    /\ UNCHANGED <<users, sessions, nextSid, issued, boundTo, rotated>>
    /\ raceFrame

\* session.create when no live session was found
rCreate(p) ==
    /\ pc[p].at = "create"
    /\ nextSid <= MaxSessions
    /\ sessions' = [sessions EXCEPT ![nextSid] = newSession(pc[p].cookie.id, now)]
    /\ nextSid' = nextSid + 1
    /\ pc' = [pc EXCEPT ![p].at = "findUnique", ![p].sid = nextSid]
    /\ UNCHANGED <<users, issued, boundTo, rotated>>
    /\ raceFrame

\* session.findUnique and the liveness check
rFindUnique(p) ==
    /\ pc[p].at = "findUnique"
    /\ IF ~isLive(sessionRow(sessions, pc[p].sid), now) THEN done(p, 401, MsgSessionDead)
       ELSE IF pc[p].cookie.sessionId # NoSession THEN goto(p, "verify")
       ELSE goto(p, "findUser")
    /\ UNCHANGED <<users, sessions, nextSid, issued, boundTo, rotated>>
    /\ raceFrame

\* verifyRefreshToken, for a token that carries a sessionId
rVerify(p) ==
    /\ pc[p].at = "verify"
    /\ IF verifyRefreshToken(pc[p].cookie, pc[p].cookie.id, pc[p].sid, users, now)
       THEN goto(p, "findUser")
       ELSE done(p, 401, MsgInvalidRefresh)
    /\ UNCHANGED <<users, sessions, nextSid, issued, boundTo, rotated>>
    /\ raceFrame

\* user.findUnique and the isActive check
rFindUser(p) ==
    /\ pc[p].at = "findUser"
    /\ IF users[pc[p].cookie.id].isActive THEN goto(p, "touch")
       ELSE done(p, 401, MsgUserGone)
    /\ UNCHANGED <<users, sessions, nextSid, issued, boundTo, rotated>>
    /\ raceFrame

\* session.update({lastSeen}); a missing row throws
rTouch(p) ==
    /\ pc[p].at = "touch"
    /\ IF sessionRow(sessions, pc[p].sid).exists
       THEN /\ sessions' = [sessions EXCEPT ![pc[p].sid].lastSeen = now]
            /\ goto(p, "issue")
       ELSE /\ done(p, 500, MsgServer)
            /\ UNCHANGED sessions
    /\ UNCHANGED <<users, nextSid, issued, boundTo, rotated>>
    /\ raceFrame

\* generateAccessToken, then generateRefreshToken up to the signed token
rIssue(p) ==
    LET u == pc[p].cookie.id
        at == generateAccessToken(u, pc[p].sid, now)
        rt == refreshPayload(u, now)
    IN
    /\ pc[p].at = "issue"
    /\ IF refreshIssuable(users, u)
       THEN /\ pc' = [pc EXCEPT ![p].at = "store", ![p].access = at, ![p].newRefresh = rt]
            /\ issued' = issued \cup {at, rt}
       ELSE /\ done(p, 500, MsgServer)
            /\ issued' = issued \cup {at}
    /\ UNCHANGED <<users, sessions, nextSid, boundTo, rotated>>
    /\ raceFrame

\* the user.update of generateRefreshToken, the cookies and the 200
rStore(p) ==
    /\ pc[p].at = "store"
    /\ users' = storeRefreshHash(users, pc[p].cookie.id, pc[p].newRefresh, pc[p].newRefresh.iat)
    /\ boundTo' = boundTo \cup {<<pc[p].newRefresh, pc[p].sid>>}
    /\ rotated' = rotated \cup {pc[p].cookie}
    /\ done(p, 200, "")
    /\ UNCHANGED <<sessions, nextSid, issued>>
    /\ raceFrame

NextRace ==
    \/ Tick
    \/ login("res", "good", "RESEARCHER")
    \/ \E p \in Procs, cb \in CredPairs, r \in Presentable : rBegin(p, cb[1], cb[2], r)
    \/ \E p \in Procs : rFindFirst(p)
    \/ \E p \in Procs : rCreate(p)
    \/ \E p \in Procs : rFindUnique(p)
    \/ \E p \in Procs : rVerify(p)
    \/ \E p \in Procs : rFindUser(p)
    \/ \E p \in Procs : rTouch(p)
    \/ \E p \in Procs : rIssue(p)
    \/ \E p \in Procs : rStore(p)

SpecRace == Init /\ [][NextRace]_vars

\* one refresh in steps, and logouts between its steps
NextLogoutRace ==
    \/ Tick
    \/ login("res", "good", "RESEARCHER")
    \/ \E cb \in CredPairs, r \in Presentable : rBegin(1, cb[1], cb[2], r)
    \/ rFindFirst(1)
    \/ rCreate(1)
    \/ rFindUnique(1)
    \/ rVerify(1)
    \/ rFindUser(1)
    \/ rTouch(1)
    \/ rIssue(1)
    \/ rStore(1)
    \/ \E b \in Presentable : logoutHandler(b)

SpecLogoutRace == Init /\ [][NextLogoutRace]_vars

\* POST /refresh with these cookies and header would pass authenticateToken
\* and every check of the handler (a token without sessionId gets the live
\* session the handler finds or creates, and is not verified)
refreshAccepted(accessCookie, bearer, cookie) ==
    /\ authenticateToken(accessCookie, bearer, users, sessions, now).ok
    /\ cookie # NoToken
    /\ jwtVerify(cookie, now)
    /\ cookie.sessionId # NoSession
          => /\ isLive(sessionRow(sessions, cookie.sessionId), now)
             /\ verifyRefreshToken(cookie, cookie.id, cookie.sessionId, users, now)
    /\ users[cookie.id].isActive

\* ------------------------------------- login, one store access or signature per step
\* login() up to the password check; handleLoginSuccess follows in steps
lBegin(p, email, password, userType) ==
    LET outcome == loginOutcome(email, password, userType, users)
        base == [NoResp EXCEPT !.op = "login", !.stage = "handler", !.email = email,
                               !.password = password, !.userType = userType]
    IN
    /\ pc[p].at = "idle"
    /\ IF outcome # "ok"
       THEN /\ \E auditOk \in AuditWrites(outcome = "badPassword") :
                 resp' = afterAudit([base EXCEPT !.status = 401, !.error = loginError(outcome),
                                       !.auditOk = auditOk,
                                       !.audit = IF outcome = "badPassword"
                                                 THEN createAuditLog("LOGIN_FAILED", auditOk)
                                                 ELSE <<>>],
                                    auditOk, MsgLoginServer)
            /\ UNCHANGED pc
       ELSE /\ pc' = [pc EXCEPT ![p].at = "lLastLogin", ![p].user = findUserByEmail(email)]
            /\ UNCHANGED resp
    /\ UNCHANGED <<users, sessions, nextSid, now, ticks, issued, boundTo, rotated, loggedOut,
                   logins>>

\* user.update({lastLogin: new Date()})
lLastLogin(p) ==
    /\ pc[p].at = "lLastLogin"
    /\ users' = [users EXCEPT ![pc[p].user].lastLogin = now]
    /\ goto(p, "lCreate")
    /\ UNCHANGED <<sessions, nextSid, now, ticks, issued, boundTo, rotated, loggedOut, logins,
                   resp>>

\* session.create: the row gets a fresh id
lCreate(p) ==
    /\ pc[p].at = "lCreate"
    /\ nextSid <= MaxSessions
    /\ sessions' = [sessions EXCEPT ![nextSid] = newSession(pc[p].user, now)]
    /\ nextSid' = nextSid + 1
    /\ pc' = [pc EXCEPT ![p].at = "lAccess", ![p].sid = nextSid]
    /\ UNCHANGED <<users, now, ticks, issued, boundTo, rotated, loggedOut, logins, resp>>

\* a session id that no created row has yet
loginSessionIdUnsaved(p) == nextSid

\* session.id of the row session.create returned
loginSessionId(p) == pc[p].sid

\* generateAccessToken({id, email, role, sessionId: session.id})
lAccess(p) ==
    LET at == generateAccessToken(pc[p].user, loginSessionId(p), now) IN
    /\ pc[p].at = "lAccess"
    /\ pc' = [pc EXCEPT ![p].at = "lRefresh", ![p].access = at]
    /\ issued' = issued \cup {at}
    /\ UNCHANGED <<users, sessions, nextSid, now, ticks, boundTo, rotated, loggedOut, logins,
                   resp>>

\* generateRefreshToken up to the signed token; it throws for a user that is
\* gone or inactive, and login answers 500
lRefresh(p) ==
    LET rt == refreshPayload(pc[p].user, now) IN
    /\ pc[p].at = "lRefresh"
    /\ IF refreshIssuable(users, pc[p].user)
       THEN /\ pc' = [pc EXCEPT ![p].at = "lStore", ![p].newRefresh = rt]
            /\ issued' = issued \cup {rt}
            /\ UNCHANGED resp
       ELSE /\ pc' = [pc EXCEPT ![p] = Idle]
            /\ resp' = [NoResp EXCEPT !.op = "login", !.stage = "handler",
                                      !.email = pc[p].user, !.status = 500,
                                      !.error = MsgLoginServer]
            /\ UNCHANGED issued
    /\ UNCHANGED <<users, sessions, nextSid, now, ticks, boundTo, rotated, loggedOut, logins>>

\* the user.update of generateRefreshToken
lStore(p) ==
    /\ pc[p].at = "lStore"
    /\ users' = storeRefreshHash(users, pc[p].user, pc[p].newRefresh, pc[p].newRefresh.iat)
    /\ boundTo' = boundTo \cup {<<pc[p].newRefresh, pc[p].sid>>}
    /\ goto(p, "lRespond")
    /\ UNCHANGED <<sessions, nextSid, now, ticks, issued, rotated, loggedOut, logins, resp>>

\* the cookies, the audit record and the 200 with token and session.id
lRespond(p) ==
    /\ pc[p].at = "lRespond"
    /\ logins' = logins \cup {<<pc[p].access, pc[p].newRefresh>>}
    /\ \E auditOk \in AuditWrites(TRUE) :
         resp' = afterAudit([NoResp EXCEPT !.op = "login", !.stage = "handler",
                                !.email = pc[p].user,
                                !.password = passwordHash(pc[p].user),
                                !.userType = role(pc[p].user),
                                !.status = 200, !.token = pc[p].access,
                                !.setCookie = pc[p].newRefresh, !.sid = pc[p].sid,
                                !.auditOk = auditOk,
                                !.audit = createAuditLog("LOGIN_SUCCESS", auditOk)],
                            auditOk, MsgLoginServer)
    /\ pc' = [pc EXCEPT ![p] = Idle]
    /\ UNCHANGED <<users, sessions, nextSid, now, ticks, issued, boundTo, rotated, loggedOut>>

\* a store call of handleLoginSuccess rejects (session.create, the user read
\* or the user.update of generateRefreshToken): the error is rethrown and the
\* catch of login answers 500
lThrow(p) ==
    /\ pc[p].at \in {"lCreate", "lRefresh", "lStore"}
    /\ pc' = [pc EXCEPT ![p] = Idle]
    /\ resp' = [NoResp EXCEPT !.op = "login", !.stage = "handler", !.email = pc[p].user,
                              !.password = passwordHash(pc[p].user),
                              !.userType = role(pc[p].user), !.dbOk = FALSE,
                              !.status = 500, !.error = MsgLoginServer]
    /\ UNCHANGED <<users, sessions, nextSid, now, ticks, issued, boundTo, rotated, loggedOut,
                   logins>>

NextSteps ==
    \/ Tick
    \/ \E p \in Procs : lThrow(p)
    \/ \E p \in Procs, l \in LifecycleLogins : lBegin(p, l[1], l[2], l[3])
    \/ \E p \in Procs : lLastLogin(p)
    \/ \E p \in Procs : lCreate(p)
    \/ \E p \in Procs : lAccess(p)
    \/ \E p \in Procs : lRefresh(p)
    \/ \E p \in Procs : lStore(p)
    \/ \E p \in Procs : lRespond(p)

SpecSteps == Init /\ [][NextSteps]_vars

\* ------------------------------------------------------------ terminateSession
\* terminateSession deleting whatever row the request names
ownsSessionAny(row, u) == row.exists

\* !(!session || session.userId !== req.user.id)
ownsSession(row, u) == row.exists /\ row.userId = u

\* terminateSession(req, res): req.user is the requester ("" when the
\* request carries none), req.body.sessionId names the session
terminateSession(u, sid) ==
    LET row == sessionRow(sessions, sid)
        base == [NoResp EXCEPT !.op = "terminate", !.stage = "handler", !.userId = u,
                               !.sid = sid,
                               !.owned = sid \in SessionIds /\ sessions[sid].exists
                                            /\ sessions[sid].userId = u]
    IN
    /\ pc = [p \in Procs |-> Idle]
    /\ IF u = ""
       THEN /\ resp' = [base EXCEPT !.status = 401, !.error = MsgUnauthorized]
            /\ UNCHANGED sessions
       ELSE IF ~ownsSession(row, u)
       THEN /\ resp' = [base EXCEPT !.status = 404, !.error = MsgSessionNotFound]
            /\ UNCHANGED sessions
       ELSE /\ sessions' = [sessions EXCEPT ![sid] = NoRow]
            /\ resp' = [base EXCEPT !.status = 200, !.error = MsgTerminated]
    /\ UNCHANGED <<users, nextSid, now, ticks, issued, boundTo, rotated, loggedOut, logins, pc>>

\* the accounts that can log in: the researcher and the organization
SessionOwners == {<<"res", "RESEARCHER">>, <<"org", "ORGANIZATION">>}

NextSessions ==
    \/ Tick
    \/ \E o \in SessionOwners : login(o[1], passwordHash(o[1]), o[2])
    \/ \E u \in Users \cup {""}, sid \in SessionIds \cup {NoSession} : terminateSession(u, sid)

SpecSessions == InitLogin /\ [][NextSessions]_vars

\* sessions terminated by their owner, and the refresh of their tokens
NextTerminate ==
    \/ Tick
    \/ \E l \in LifecycleLogins : login(l[1], l[2], l[3])
    \/ \E sid \in SessionIds : terminateSession("res", sid)
    \/ \E cb \in CredPairs, r \in Presentable : refreshToken(cb[1], cb[2], r)

SpecTerminate == Init /\ [][NextTerminate]_vars

\* ------------------------------------------------ verifyRefreshToken on its own
\* The function applied to every token a client can present, every expected
\* user id and session id, over the rows the users table can hold.
UnknownUser == "ghost"
VerifyUserIds == {"res", "off", "", UnknownUser}

\* the tokens in circulation: two refresh tokens of "res" signed an hour
\* apart and an access token of its session
VerifyTokens ==
    {refreshPayload("res", 0), refreshPayload("res", AccessTTL), generateAccessToken("res", 1, 0)}

\* the refresh columns of a row: never written or cleared, or written by the
\* generateRefreshToken call that signed at 0 or at AccessTTL.  Two calls
\* that overlap store in either order, so the row of the older call can be
\* the one that stays while the younger token is in circulation.
VerifyRows ==
    {[refreshTokenHash |-> NullHash, refreshTokenExpiresAt |-> NullDate]}
        \cup {[refreshTokenHash |-> bcryptHash(refreshPayload("res", c)),
                refreshTokenExpiresAt |-> c + RefreshTTL] : c \in {0, AccessTTL}}

VerifyClocks == {0, AccessTTL, RefreshTTL + 1, RefreshTTL + AccessTTL + 1}

InitVerify ==
    /\ \E row \in VerifyRows, active \in BOOLEAN :
         users = [u \in Users |->
                    IF u = "res"
                    THEN [isActive |-> active, lastLogin |-> 0,
                          refreshTokenHash |-> row.refreshTokenHash,
                          refreshTokenExpiresAt |-> row.refreshTokenExpiresAt]
                    ELSE [isActive |-> u = "adm", lastLogin |-> NullDate,
                          refreshTokenHash |-> NullHash, refreshTokenExpiresAt |-> NullDate]]
    /\ sessions = [s \in SessionIds |-> IF s = 1 THEN newSession("res", 0) ELSE NoRow]
    /\ nextSid = 2
    /\ now \in VerifyClocks
    /\ ticks = 0
    /\ issued = VerifyTokens
    /\ boundTo = {<<refreshPayload("res", c), 1>> : c \in {0, AccessTTL}}
    /\ rotated = {}
    /\ loggedOut = {}
    /\ logins = {}
    /\ resp = NoResp
    /\ pc = [p \in Procs |-> Idle]

\* one call of verifyRefreshToken(token, userId, sessionId)
verifyCall(t, userId, sessionId, dbOk) ==
    LET r == verifyRefreshTokenOutcome(t, userId, sessionId, users, now, dbOk) IN
    /\ resp' = [NoResp EXCEPT !.op = "verify", !.cookieIn = t, !.userId = userId,
                              !.sid = sessionId, !.dbOk = dbOk,
                              !.ok = r.value, !.threw = r.threw]
    /\ UNCHANGED <<users, sessions, nextSid, now, ticks, issued, boundTo, rotated, loggedOut,
                   logins, pc>>

NextVerify ==
    \E t \in Presentable, userId \in VerifyUserIds, sessionId \in SessionIds \cup {NoSession},
       dbOk \in BOOLEAN : verifyCall(t, userId, sessionId, dbOk)

SpecVerify == InitVerify /\ [][NextVerify]_vars

\* ------------------------------------------------ the token service on its own
\* one call of generateRefreshToken(userId)
generateRefreshTokenCall(userId) ==
    LET rt == refreshPayload(userId, now)
        base == [NoResp EXCEPT !.op = "generate", !.userId = userId, !.clock = now]
    IN
    /\ IF userId = "" \/ ~refreshIssuable(users, userId)
       THEN /\ resp' = [base EXCEPT !.threw = TRUE]
            /\ UNCHANGED <<users, issued>>
       ELSE /\ users' = storeRefreshHash(users, userId, rt, now)
            /\ issued' = issued \cup {rt}
            /\ resp' = [base EXCEPT !.setCookie = rt]
    /\ UNCHANGED <<sessions, nextSid, now, ticks, boundTo, rotated, loggedOut, logins, pc>>

\* one run of cleanupExpiredTokens()
cleanupCall ==
    LET r == cleanupExpiredTokens(users, now) IN
    /\ users' = r.rows
    /\ resp' = [NoResp EXCEPT !.op = "cleanup", !.count = r.count, !.clock = now,
                              !.again = resp.op = "cleanup" /\ resp.clock = now]
    /\ UNCHANGED <<sessions, nextSid, now, ticks, issued, boundTo, rotated, loggedOut, logins,
                   pc>>

NextTokens ==
    \/ Tick
    \/ \E userId \in VerifyUserIds \cup {"adm"} : generateRefreshTokenCall(userId)
    \/ cleanupCall

SpecTokens == InitVerify /\ [][NextTokens]_vars

\* ======================================================================
\* Properties
\* ======================================================================
GuardedOps == {"refresh", "logout", "sessions"}

\* C1 -- rotation invalidation: a refresh token that was presented in a
\* successful refresh call fails verifyRefreshToken at every later time.
C1_RotationInvalidation ==
    \A t \in rotated : ~verifyRefreshToken(t, t.id, NoSession, users, now)

\* C2 -- replay at the endpoint: the first POST /refresh with the refresh
\* cookie of a login that answers 200 returns an access token other than the
\* login's, and a further POST /refresh with that cookie answers 401.
C2_ReplayAtEndpoint ==
    (resp.op = "refresh" /\ \E l \in logins : l[2] = resp.cookieIn) =>
        IF resp.replay
        THEN resp.status = 401
        ELSE resp.status = 200 => \A l \in logins : l[2] = resp.cookieIn => l[1] # resp.token

\* C3 -- session gating: no handler behind an authorization middleware runs
\* for a request whose signed, unexpired access token references a session
\* that is inactive, expired or gone.
C3_SessionGating ==
    (resp.op \in GuardedOps /\ resp.stage = "handler" /\ resp.credType = "access")
        => resp.liveAtCall

\* C4 -- token-kind separation: the middleware calls next() only for a
\* credential whose kind is "access".
C4_TokenKindSeparation ==
    (resp.op \in GuardedOps /\ resp.stage = "handler") => resp.credType = "access"

\* the presented refresh cookie was issued for a session that has been logged out
cookieOfLoggedOut == \E s \in loggedOut : <<resp.cookieIn, s>> \in boundTo

\* C5 -- concurrent refresh: of two overlapping refresh calls that present the
\* same refresh token, at most one answers 200 with a new token pair.
C5_AtMostOneRefresh ==
    ~(/\ \A p \in Procs : pc[p].at = "done" /\ pc[p].raced /\ pc[p].status = 200
      /\ pc[1].cookie = pc[2].cookie
      /\ \A p \in Procs : pc[p].newRefresh # NoToken)

\* C6 -- logout kills refresh: after a 200 logout of session S, a POST /refresh
\* with the refresh token issued for S answers 401 and issues nothing.
C6_LogoutKillsRefresh ==
    (resp.op = "refresh" /\ cookieOfLoggedOut)
        => (resp.status = 401 /\ resp.token = NoToken /\ resp.setCookie = NoToken)

WrongPasswordError == loginError(loginOutcome("res", "bad", "RESEARCHER", users))

\* C8 -- role isolation: the right email and password of an ORGANIZATION user
\* on /login/researcher is answered like a wrong password (401, same body)
\* and creates no session.
C8_RoleIsolation ==
    [][(resp'.op = "login" /\ resp'.email = "org" /\ resp'.password = "good"
            /\ resp'.userType = "RESEARCHER")
        => (resp'.status = 401 /\ resp'.error = WrongPasswordError /\ resp'.token = NoToken
            /\ sessions' = sessions /\ nextSid' = nextSid)]_vars

C8_Witness ==
    resp.op = "login" /\ resp.email = "org" /\ resp.password = "good"
        /\ resp.userType = "RESEARCHER" /\ users["org"].isActive /\ resp.status = 401

\* C9 -- pending approval: a login of an inactive ORGANIZATION user on the
\* organization route answers 401 with the pending-activation message, which
\* is not the invalid-credentials message, and creates no session.
C9_PendingApproval ==
    [][(resp'.op = "login" /\ resp'.email = "org" /\ resp'.userType = "ORGANIZATION"
            /\ ~users["org"].isActive)
        => (resp'.status = 401 /\ resp'.error = MsgPending /\ resp'.error # WrongPasswordError
            /\ sessions' = sessions /\ nextSid' = nextSid)]_vars

C9_Witness ==
    resp.op = "login" /\ resp.email = "org" /\ resp.userType = "ORGANIZATION"
        /\ resp.password = "good" /\ ~users["org"].isActive /\ resp.error = MsgPending

\* C10 -- inactive users never log in: no login for a user with isActive =
\* false answers 200, creates a session or stores a refresh hash.
C10_InactiveNeverLogsIn ==
    [][(resp'.op = "login" /\ resp'.email \in Users /\ ~users[resp'.email].isActive)
        => (resp'.status # 200 /\ resp'.token = NoToken /\ resp'.setCookie = NoToken
            /\ sessions' = sessions /\ nextSid' = nextSid /\ users' = users)]_vars

C10_Witness ==
    resp.op = "login" /\ resp.email = "off" /\ resp.password = "good"
        /\ resp.userType = "RESEARCHER" /\ resp.status = 401 /\ resp.error = MsgInactive

\* the persisted expiry of the row verifyRefreshToken reads has passed
persistedExpired(u) ==
    /\ u \in Users
    /\ users[u].refreshTokenExpiresAt # NullDate
    /\ users[u].refreshTokenExpiresAt < now

\* everything but the persisted expiry accepts the presented token
otherwiseValid ==
    /\ resp.dbOk /\ resp.userId \in Users
    /\ jwtVerify(resp.cookieIn, now)
    /\ resp.cookieIn.id = resp.userId /\ resp.cookieIn.type = "refresh"
    /\ users[resp.userId].isActive
    /\ bcryptCompare(resp.cookieIn, users[resp.userId].refreshTokenHash)

\* C11 -- persisted expiry enforcement: verifyRefreshToken returns false when
\* refreshTokenExpiresAt of the user is earlier than now, also for a token
\* whose signature is valid, whose exp has not passed and whose hash matches.
C11_PersistedExpiry ==
    (resp.op = "verify" /\ persistedExpired(resp.userId)) => ~resp.ok

C11_Witness ==
    resp.op = "verify" /\ persistedExpired(resp.userId) /\ otherwiseValid /\ ~resp.ok

wrongPasswordLogin ==
    /\ resp.op = "login" /\ resp.email = "res" /\ resp.userType = "RESEARCHER"
    /\ ~passwordMatch(resp.password, passwordHash("res"))

\* C12 (as stated) -- failed-login audit: a login of an active RESEARCHER with
\* a wrong password answers 401 with the invalid-credentials error and writes
\* exactly one LOGIN_FAILED audit record and no LOGIN_SUCCESS record.
C12_ExactlyOneFailedAudit ==
    wrongPasswordLogin =>
        (resp.status = 401 /\ resp.error = MsgInvalidLogin /\ resp.audit = <<"LOGIN_FAILED">>)

\* C12 (amended) -- the same login answers 401 with the invalid-credentials
\* error and makes one audit write: exactly one LOGIN_FAILED record when the
\* audit store accepts it, none when the write fails, never two and never a
\* LOGIN_SUCCESS record.
C12_FailedLoginAudit ==
    wrongPasswordLogin =>
        /\ resp.status = 401 /\ resp.error = MsgInvalidLogin
        /\ resp.token = NoToken /\ resp.setCookie = NoToken
        /\ resp.audit = IF resp.auditOk THEN <<"LOGIN_FAILED">> ELSE <<>>

C12_Witness ==
    wrongPasswordLogin /\ users["res"].isActive /\ resp.auditOk
        /\ resp.status = 401 /\ resp.audit = <<"LOGIN_FAILED">>

\* C13 -- refresh needs only the refresh cookie: POST /refresh from a client
\* whose access token is absent or expired, whose session is live and whose
\* refresh cookie holds the stored refresh token, answers 200 with a new
\* access token.
C13_RefreshCookieSuffices ==
    (resp.op = "refresh" /\ resp.cookieOk /\ (resp.credType = "none" \/ resp.credExpired))
        => (resp.status = 200 /\ resp.token # NoToken)

\* t is the refresh token issued last for session s, and for no other session
latestOf(t, s) ==
    /\ <<t, s>> \in boundTo
    /\ \A b \in boundTo : b[2] = s => b[1].iat <= t.iat
    /\ \A b \in boundTo : b[1] = t => b[2] = s

\* C14 -- multi-device independence: while a user has a second session, the
\* refresh token issued last for a live session B, not yet presented in a
\* refresh and not expired, is accepted by verifyRefreshToken whatever was
\* done in the other session.
C14_MultiDevice ==
    \A b \in boundTo :
        (/\ latestOf(b[1], b[2])
         /\ isLive(sessions[b[2]], now) /\ b[2] \notin loggedOut
         /\ b[1] \notin rotated /\ jwtVerify(b[1], now)
         /\ \E a \in SessionIds \ {b[2]} : sessions[a].exists /\ sessions[a].userId = b[1].id)
        => verifyRefreshToken(b[1], b[1].id, b[2], users, now)

\* the body of the rejection a middleware gives to a request without token
noTokenRejection(op) ==
    IF op = "refresh" THEN authenticateToken(NoToken, NoToken, users, sessions, now)
    ELSE authenticate(NoToken, now)

\* C16 -- uniform middleware rejection: every rejection by an authorization
\* middleware has the status and body of its rejection of a request without
\* token, whatever check failed.
C16_UniformRejection ==
    (resp.op \in GuardedOps /\ resp.stage = "guard")
        => (resp.status = noTokenRejection(resp.op).status
            /\ resp.error = noTokenRejection(resp.op).error)

\* C20 -- session binding in verification: verifyRefreshToken(token, userId,
\* expectedSessionId) is false when the token was not issued for
\* expectedSessionId.
C20_SessionBinding ==
    \A b \in boundTo, e \in SessionIds :
        <<b[1], e>> \notin boundTo => ~verifyRefreshToken(b[1], b[1].id, e, users, now)

\* the login named an email no user has
unknownEmailLogin == resp.op = "login" /\ resp.email \notin Users

\* the login named an active user of the route's role, with a wrong password
knownEmailWrongPassword ==
    /\ resp.op = "login" /\ resp.email \in Users
    /\ users[resp.email].isActive /\ role(resp.email) = resp.userType
    /\ ~passwordMatch(resp.password, passwordHash(resp.email))

\* C17 -- no user enumeration at login: on one role route, a login with an
\* email of no user and a login with an active user's email and a wrong
\* password get the same status and the same body, and no token.
C17_NoEnumeration ==
    (unknownEmailLogin \/ knownEmailWrongPassword)
        => (/\ resp.status = 401
            /\ resp.error = loginError(loginOutcome("res", "bad", "RESEARCHER", users))
            /\ resp.token = NoToken /\ resp.setCookie = NoToken /\ resp.sid = NoSession)

C17_Witness ==
    unknownEmailLogin /\ resp.userType = "RESEARCHER" /\ resp.status = 401
        /\ resp.error = loginError(loginOutcome("res", "bad", "RESEARCHER", users))

\* the session row with that id exists, is active and belongs to the user
boundSession(ss, sid, u) ==
    sessionRow(ss, sid).exists /\ sessionRow(ss, sid).isActive /\ sessionRow(ss, sid).userId = u

\* C15 -- login success binds a real session: when login issues its access
\* token, the Session row whose id the token embeds already exists, is active
\* and belongs to the user; the 200 returns that token and that session id.
C15_LoginBindsSession ==
    [][\A p \in Procs :
         /\ (pc[p].at = "lAccess" /\ pc'[p].at = "lRefresh")
              => (/\ pc'[p].access.id = pc[p].user
                  /\ boundSession(sessions, pc'[p].access.sessionId, pc[p].user))
         /\ (pc[p].at = "lRespond" /\ pc'[p].at = "idle")
              => (/\ resp'.status = 200 /\ resp'.token = pc[p].access
                  /\ resp'.token.type = "access"
                  /\ resp'.token.sessionId = resp'.sid
                  /\ boundSession(sessions', resp'.sid, resp'.token.id))]_vars

C15_Witness ==
    /\ resp.op = "login" /\ resp.status = 200 /\ resp.token.sessionId = resp.sid
    /\ boundSession(sessions, resp.sid, resp.email)
    /\ \E p \in Procs : pc[p].at = "lAccess"

\* C18 -- ownership-checked termination: terminateSession deletes a session
\* only when its userId is the requester's id; a request that names a session
\* of another user or no existing session gets 404 and changes no session.
C18_OwnershipChecked ==
    [][resp'.op = "terminate" =>
         /\ sessions' # sessions =>
              (/\ resp'.owned /\ resp'.status = 200
               /\ sessions[resp'.sid].userId = resp'.userId
               /\ sessions' = [sessions EXCEPT ![resp'.sid] = NoRow])
         /\ (~resp'.owned /\ resp'.userId # "") => resp'.status = 404
         /\ ~resp'.owned => sessions' = sessions]_vars

C18_Witness ==
    /\ resp.op = "terminate" /\ resp.status = 404 /\ ~resp.owned
    /\ resp.sid \in SessionIds /\ sessions[resp.sid].exists
    /\ sessions[resp.sid].userId # resp.userId /\ resp.userId # ""

\* the subject of the call is no user, or an inactive one
unusableSubject(u) == u \notin Users \/ ~users[u].isActive

\* C21 -- no refresh token for an unusable subject: generateRefreshToken for a
\* user id that does not exist or whose user is inactive fails with an error,
\* returns no token and changes no stored refresh hash or expiry.
C21_NoTokenForUnusable ==
    [][(resp'.op = "generate" /\ unusableSubject(resp'.userId))
        => (/\ resp'.threw /\ resp'.setCookie = NoToken
            /\ \A u \in Users :
                 /\ users'[u].refreshTokenHash = users[u].refreshTokenHash
                 /\ users'[u].refreshTokenExpiresAt = users[u].refreshTokenExpiresAt)]_vars

C21_Witness ==
    /\ resp.op = "generate" /\ resp.userId \in Users /\ ~users[resp.userId].isActive
    /\ resp.threw /\ resp.setCookie = NoToken
    /\ users[resp.userId].refreshTokenHash.set

\* the refresh columns of user u are cleared, the rest of the row is kept
clearedRow(before, after) ==
    after = [before EXCEPT !.refreshTokenHash = NullHash, !.refreshTokenExpiresAt = NullDate]

\* C22 -- cleanupExpiredTokens is idempotent: a run clears hash and expiry of
\* exactly the users whose stored expiry is before now and returns their
\* number; a second run right after it, at the same clock, changes no record
\* and returns 0.
C22_CleanupIdempotent ==
    [][(resp'.op = "cleanup" /\ resp' # resp)
        => (/\ \A u \in Users :
                 IF users[u].refreshTokenExpiresAt # NullDate
                    /\ users[u].refreshTokenExpiresAt < now
                 THEN clearedRow(users[u], users'[u])
                 ELSE users'[u] = users[u]
            /\ resp'.count = Cardinality({u \in Users :
                                  users[u].refreshTokenExpiresAt # NullDate
                                  /\ users[u].refreshTokenExpiresAt < now})
            /\ resp'.again => (resp'.count = 0 /\ users' = users)
            /\ cleanupExpiredTokens(users', now').rows = users'
            /\ cleanupExpiredTokens(users', now').count = 0)]_vars

C22_Witness ==
    /\ resp.op = "cleanup" /\ resp.again /\ resp.count = 0
    /\ \E u \in Users : ~users[u].refreshTokenHash.set /\ users[u].lastLogin # NullDate
    /\ \E u \in Users : users[u].refreshTokenHash.set

\* C23 -- fixed session lifetime: no operation sets the expiresAt of a session
\* later than the value set when it was created, and a successful refresh
\* changes nothing but lastSeen on the session records that exist.
C23_FixedLifetime ==
    [][/\ \A s \in SessionIds :
            sessions'[s].exists => sessions'[s].expiresAt <= sessions'[s].createdAt + SessionTTL
       /\ (resp'.op = "refresh" /\ resp'.status = 200 /\ resp' # resp)
            => \A s \in SessionIds :
                 sessions[s].exists
                    => sessions'[s] = [sessions[s] EXCEPT !.lastSeen = sessions'[s].lastSeen]]_vars

\* C24 -- deactivation is permanent: a session that logout has set to
\* isActive = false, expiresAt = now is not live (isActive and expiresAt >
\* now) in any later state, whatever login, refresh or logout follows.
C24_DeactivationPermanent ==
    \A s \in loggedOut :
        /\ ~(sessions[s].isActive /\ sessions[s].expiresAt > now)
        /\ ~isLive(sessionRow(sessions, s), now)
        /\ s \notin findFirstSession(sessions[s].userId, sessions, now)

C24_Witness ==
    /\ resp.op = "refresh" /\ resp.status = 200 /\ cookieOfLoggedOut
    /\ \E s \in loggedOut : sessions[s].exists /\ ~sessions[s].isActive /\ resp.sid # s

\* C25 -- audit failures are swallowed: a login, refresh or logout whose audit
\* write fails writes no record and answers as with a successful write: 200
\* with its tokens and its store changes made, or the 401 of a wrong
\* password with nothing changed; never 500.
C25_AuditSwallowed ==
    [][(resp' # resp /\ resp'.op \in {"login", "refresh", "logout"} /\ ~resp'.auditOk)
        => (/\ resp'.audit = <<>>
            /\ resp'.status # 500
            /\ resp'.op = "login" =>
                 IF passwordMatch(resp'.password, passwordHash(resp'.email))
                 THEN /\ resp'.status = 200
                      /\ resp'.token.type = "access" /\ resp'.setCookie.type = "refresh"
                      /\ ~sessions[resp'.sid].exists /\ sessions'[resp'.sid].isActive
                      /\ users'[resp'.email].refreshTokenHash.set
                 ELSE /\ resp'.status = 401 /\ resp'.error = MsgInvalidLogin
                      /\ resp'.token = NoToken /\ resp'.setCookie = NoToken
                      /\ sessions' = sessions /\ users' = users
            /\ resp'.op = "refresh" =>
                 /\ resp'.status = 200
                 /\ resp'.token.type = "access" /\ resp'.setCookie.type = "refresh"
                 /\ sessions'[resp'.sid].lastSeen = now
                 /\ users'[resp'.token.id].refreshTokenHash.set
            /\ resp'.op = "logout" =>
                 /\ resp'.status = 200
                 /\ ~sessions'[resp'.sid].isActive
                 /\ ~users'[sessions[resp'.sid].userId].refreshTokenHash.set)]_vars

C25_Witness ==
    /\ resp.op = "logout" /\ ~resp.auditOk /\ resp.audit = <<>> /\ resp.status = 200
    /\ ~sessions[resp.sid].isActive
    /\ ~users[sessions[resp.sid].userId].refreshTokenHash.set

loginInFlight(u) == \E p \in Procs : pc[p].at # "idle" /\ pc[p].user = u

\* a login of user u was answered 200
loginAnswered200(u) == \E l \in logins : l[1].id = u

\* C27 -- a rejected login changes nothing but the audit log: every session
\* record, lastLogin and stored refresh hash was written by a login that
\* answered 200 (or is still running), never by one that answered otherwise.
C27_RejectedLoginNoChange ==
    /\ \A u \in Users :
         (users[u].lastLogin # NullDate \/ users[u].refreshTokenHash.set)
            => (loginAnswered200(u) \/ loginInFlight(u))
    /\ \A s \in SessionIds :
         sessions[s].exists
            => (\/ \E l \in logins : l[1].sessionId = s
                \/ \E p \in Procs : pc[p].at # "idle" /\ pc[p].sid = s)
    /\ (resp.op = "login" /\ resp.status # 200) => resp.setCookie = NoToken

\* C28 -- refresh keeps the session binding: the access token of a successful
\* POST /refresh carries the user id of the presented refresh token and the id
\* of the session that token was issued for, and the refresh creates no
\* session.
C28_RefreshKeepsBinding ==
    [][(resp'.op = "refresh" /\ resp'.status = 200 /\ resp' # resp)
        => (/\ resp'.token.id = resp'.cookieIn.id
            /\ <<resp'.cookieIn, resp'.token.sessionId>> \in boundTo
            /\ nextSid' = nextSid)]_vars

\* every session the refresh token t was issued for has been deleted
issuedForTerminated(t) ==
    /\ \E b \in boundTo : b[1] = t
    /\ \A b \in boundTo : b[1] = t => ~sessions[b[2]].exists

\* C29 -- termination is not undone by refresh: once terminateSession has
\* deleted the session a refresh token was issued for, every POST /refresh
\* presenting that token answers 401, issues no token pair and creates no
\* session.
C29_TerminationFinal ==
    [][(resp'.op = "refresh" /\ resp' # resp /\ issuedForTerminated(resp'.cookieIn))
        => (/\ resp'.status = 401
            /\ resp'.token = NoToken /\ resp'.setCookie = NoToken
            /\ nextSid' = nextSid)]_vars

\* C30 -- refresh racing with logout: once a logout of session S that ran
\* between the steps of a refresh presenting S's refresh token has answered
\* 200 and the refresh has finished, the user's stored refresh hash is null
\* and no token the refresh returned obtains a 200 from POST /refresh.
C30_LogoutWinsRace ==
    (/\ resp.op = "logout" /\ resp.status = 200 /\ resp.raced
     /\ pc[1].at = "done" /\ <<pc[1].cookie, resp.sid>> \in boundTo)
        => /\ ~users[pc[1].cookie.id].refreshTokenHash.set
           /\ pc[1].status = 200
                => \A c \in {pc[1].access, pc[1].newRefresh} :
                      ~refreshAccepted(c, NoToken, pc[1].newRefresh)

====
